---- MODULE Spec2Model ----
(***************************************************************************)
(* Model of the accident-analysis dashboard's filtering engine:            *)
(* src/src/data_loader.py (load_data, filter_data),                        *)
(* src/src/components/filters.py (initialize_filters, render_filters) and  *)
(* the script run of src/overview.py (main).                               *)
(*                                                                         *)
(* A table (pandas DataFrame) is a sequence of rows; tables live in a heap *)
(* of objects so that "returns a new table" and "mutates its argument" are *)
(* different outcomes.  A missing numeric cell (pandas NaN, produced by    *)
(* pd.to_numeric(..., errors='coerce')) is the value NaN; every comparison *)
(* with NaN is false and every sum with NaN is NaN, as in IEEE arithmetic. *)
(***************************************************************************)
EXTENDS Integers, Sequences, FiniteSets, TLC

VARIABLES
    heap,           \* object id -> table (the DataFrames alive in the process)
    df,             \* id of the table load_data() returns (st.cache_data)
    session_state,  \* st.session_state: has the key "filters" or no key
    filtered_df,    \* id of the table the last run's filter_data returned, or None
    stats,          \* what calculate_summary_stats returned in the last run
    fault,          \* the exception that ended the last run or call, or "none"
    agg,            \* the last aggregation call: its name and what it returned
    source,         \* data/accidents.csv: its rows as text, or no file
    cache,          \* st.cache_data's entry for load_data: empty or one value
    calls,          \* number of load_data() calls made in the process
    reads,          \* number of times pd.read_csv has read the source
    sessions        \* the browser sessions of one process, when several are open

vars == <<heap, df, session_state, filtered_df, stats, fault, agg,
          source, cache, calls, reads, sessions>>

\* Longest dataset the model loads.
MaxRows == 2

\* The missing value of a numeric column (all present values are >= 0).
NaN == -1

\* Python's None, for a reference that holds no table.
None == 0

ObjIds == 1..5

(***************************************************************************)
(* src/src/config.py                                                       *)
(***************************************************************************)
SEVERITY_LEVELS == {"Moderate", "Minor", "Severe"}

ACCIDENT_CAUSES ==
    {"Weather", "Mechanical Failure", "Speeding", "Distracted Driving", "Drunk Driving"}

(***************************************************************************)
(* Rows.  Row1 and Row2 are the two rows of the specification's concrete   *)
(* scenario; the other rows carry a missing cell or a value outside the    *)
(* sliders' domains.                                                       *)
(***************************************************************************)
MkRow(sev, veh, ped, cyc, inj, fat, rt, cause, loss) ==
    [severity |-> sev, vehicles |-> veh, pedestrians |-> ped, cyclists |-> cyc,
     injuries |-> inj, fatalities |-> fat, response_time |-> rt, cause |-> cause,
     economic_loss |-> loss]

Row1 == MkRow("Severe", 2, 0, 0, 3, 1, 12, "Speeding", 500)
Row2 == MkRow("Minor", 1, 0, 0, 0, 0, 8, "Weather", 100)
RowNoTime == MkRow("Moderate", 3, 1, 0, 1, 0, NaN, "Drunk Driving", 300)
RowFiveVehicles == MkRow("Severe", 5, 0, 1, 2, 0, 30, "Speeding", 200)
RowNoInjuries == MkRow("Minor", 2, 1, 1, NaN, 0, 20, "Weather", 50)
RowLate == MkRow("Moderate", 4, 0, 0, 20, 4, 70, "Mechanical Failure", NaN)

\* The source file the datasets are cut from.
SourceRows == <<Row1, Row2, RowNoTime, RowFiveVehicles, RowNoInjuries, RowLate>>

\* The rows of SourceRows at the positions I, in the order of the source.
RowsAt(I) ==
    [k \in 1..Cardinality(I) |->
        SourceRows[CHOOSE i \in I : Cardinality({j \in I : j < i}) = k - 1]]

\* The datasets load_data may return: at most MaxRows rows of the source.
Datasets ==
    {RowsAt(I) : I \in {J \in SUBSET (1..Len(SourceRows)) : Cardinality(J) <= MaxRows}}

(***************************************************************************)
(* NaN-aware arithmetic of the numeric columns.                            *)
(***************************************************************************)
Add(a, b) == IF a = NaN \/ b = NaN THEN NaN ELSE a + b
Ge(a, b) == a # NaN /\ b # NaN /\ a >= b
Le(a, b) == a # NaN /\ b # NaN /\ a <= b
Gt(a, b) == a # NaN /\ b # NaN /\ a > b

(***************************************************************************)
(* The heap of tables.                                                     *)
(***************************************************************************)
\* A new object's id: the smallest id that is not in use.
NewId(h) == CHOOSE i \in ObjIds \ DOMAIN h : \A j \in ObjIds \ DOMAIN h : i <= j

\* The heap without the object `ref` (its last reference was dropped).
Release(h, ref) == [i \in DOMAIN h \ {ref} |-> h[i]]

\* filtered_df = df.copy(): a new object with the same rows. The result is the
\* frame of filter_data: the heap and its names df and filtered_df.
copy(h, ref) ==
    LET n == NewId(h) IN [heap |-> h @@ (n :> h[ref]), df |-> ref, filtered_df |-> n]

\* The table the local name filtered_df refers to.
Table(st) == st.heap[st.filtered_df]

\* t[mask]: the rows of t whose entry in the boolean series is true, in order.
RECURSIVE SelectRows(_, _)
SelectRows(t, mask) ==
    IF t = <<>> THEN <<>>
    ELSE (IF Head(mask) THEN <<Head(t)>> ELSE <<>>)
         \o SelectRows(Tail(t), Tail(mask))

\* filtered_df = filtered_df[mask]: boolean indexing builds a new table; the
\* name is rebound to it, which drops the only reference to the table it
\* named before.
Index(st, mask) ==
    LET n == NewId(st.heap)
        h == st.heap @@ (n :> SelectRows(Table(st), mask))
    IN [heap |-> Release(h, st.filtered_df), df |-> st.df, filtered_df |-> n]

(***************************************************************************)
(* src/src/data_loader.py, filter_data: the seven steps, in the order of   *)
(* the code.  A Python list or tuple is true when it is not empty; a mask  *)
(* is the boolean series of one entry per row of filtered_df.              *)
(***************************************************************************)
isin(value, values) == value \in values

\* isin applied also when no severity is selected.
SeverityFilterNoGuard(st, filters) ==
    Index(st, [i \in DOMAIN Table(st) |-> isin(Table(st)[i].severity, filters.severity)])

\* The selection ignored when no row of the table has a selected level.
SeverityFilterIfAnyMatch(st, filters) ==
    IF filters.severity # {}
           /\ \E i \in DOMAIN Table(st) : isin(Table(st)[i].severity, filters.severity)
    THEN Index(st, [i \in DOMAIN Table(st) |->
                      isin(Table(st)[i].severity, filters.severity)])
    ELSE st

SeverityFilter(st, filters) ==
    IF filters.severity # {}
    THEN Index(st, [i \in DOMAIN Table(st) |->
                      isin(Table(st)[i].severity, filters.severity)])
    ELSE st

\* The lower bound compared the wrong way round.
VehiclesFilterLeMin(st, filters) ==
    IF Len(filters.vehicles_range) > 0
    THEN LET min_v == filters.vehicles_range[1]
             max_v == filters.vehicles_range[2]
         IN Index(st, [i \in DOMAIN Table(st) |->
                         Le(Table(st)[i].vehicles, min_v)
                         /\ Le(Table(st)[i].vehicles, max_v)])
    ELSE st

\* The step skipped when the slider is at its full range.
VehiclesFilterSkipNeutral(st, filters) ==
    IF filters.vehicles_range # <<1, 4>>
    THEN LET min_v == filters.vehicles_range[1]
             max_v == filters.vehicles_range[2]
         IN Index(st, [i \in DOMAIN Table(st) |->
                         Ge(Table(st)[i].vehicles, min_v)
                         /\ Le(Table(st)[i].vehicles, max_v)])
    ELSE st

VehiclesFilter(st, filters) ==
    IF Len(filters.vehicles_range) > 0
    THEN LET min_v == filters.vehicles_range[1]
             max_v == filters.vehicles_range[2]
         IN Index(st, [i \in DOMAIN Table(st) |->
                         Ge(Table(st)[i].vehicles, min_v)
                         /\ Le(Table(st)[i].vehicles, max_v)])
    ELSE st

PedestriansFilter(st, filters) ==
    IF filters.pedestrians
    THEN Index(st, [i \in DOMAIN Table(st) |-> Gt(Table(st)[i].pedestrians, 0)])
    ELSE st

CyclistsFilter(st, filters) ==
    IF filters.cyclists
    THEN Index(st, [i \in DOMAIN Table(st) |-> Gt(Table(st)[i].cyclists, 0)])
    ELSE st

\* The series filtered_df['Number of Injuries'] + filtered_df['Number of Fatalities'].
total_casualties(t) == [i \in DOMAIN t |-> Add(t[i].injuries, t[i].fatalities)]

\* The lower bound exclusive.
CasualtiesFilterStrict(st, filters) ==
    IF Len(filters.casualties_range) > 0
    THEN LET min_c == filters.casualties_range[1]
             max_c == filters.casualties_range[2]
             total == total_casualties(Table(st))
         IN Index(st, [i \in DOMAIN Table(st) |->
                         Gt(total[i], min_c) /\ Le(total[i], max_c)])
    ELSE st

\* The sum taken from df and applied by position to filtered_df.
CasualtiesFilterFromDf(st, filters) ==
    IF Len(filters.casualties_range) > 0
    THEN LET min_c == filters.casualties_range[1]
             max_c == filters.casualties_range[2]
             total == total_casualties(st.heap[st.df])
         IN Index(st, [i \in DOMAIN Table(st) |->
                         Ge(total[i], min_c) /\ Le(total[i], max_c)])
    ELSE st

\* The range skipped when both of its bounds are 0.
CasualtiesFilterSkipZeros(st, filters) ==
    IF Len(filters.casualties_range) > 0
           /\ (filters.casualties_range[1] # 0 \/ filters.casualties_range[2] # 0)
    THEN LET min_c == filters.casualties_range[1]
             max_c == filters.casualties_range[2]
             total == total_casualties(Table(st))
         IN Index(st, [i \in DOMAIN Table(st) |->
                         Ge(total[i], min_c) /\ Le(total[i], max_c)])
    ELSE st

CasualtiesFilter(st, filters) ==
    IF Len(filters.casualties_range) > 0
    THEN LET min_c == filters.casualties_range[1]
             max_c == filters.casualties_range[2]
             total == total_casualties(Table(st))
         IN Index(st, [i \in DOMAIN Table(st) |->
                         Ge(total[i], min_c) /\ Le(total[i], max_c)])
    ELSE st

\* Rows dropped only when their time is known to be outside the range.
ResponseTimeFilterKeepNaN(st, filters) ==
    IF Len(filters.response_time_range) > 0
    THEN LET min_t == filters.response_time_range[1]
             max_t == filters.response_time_range[2]
         IN Index(st, [i \in DOMAIN Table(st) |->
                         ~Gt(min_t, Table(st)[i].response_time)
                         /\ ~Gt(Table(st)[i].response_time, max_t)])
    ELSE st

ResponseTimeFilter(st, filters) ==
    IF Len(filters.response_time_range) > 0
    THEN LET min_t == filters.response_time_range[1]
             max_t == filters.response_time_range[2]
         IN Index(st, [i \in DOMAIN Table(st) |->
                         Ge(Table(st)[i].response_time, min_t)
                         /\ Le(Table(st)[i].response_time, max_t)])
    ELSE st

\* The mask computed on df and applied to df: the earlier steps are lost.
CausesFilterOnDf(st, filters) ==
    IF filters.causes # {}
    THEN LET n == NewId(st.heap)
             t == st.heap[st.df]
             h == st.heap @@ (n :> SelectRows(t, [i \in DOMAIN t |->
                                                    isin(t[i].cause, filters.causes)]))
         IN [heap |-> Release(h, st.filtered_df), df |-> st.df, filtered_df |-> n]
    ELSE st

CausesFilter(st, filters) ==
    IF filters.causes # {}
    THEN Index(st, [i \in DOMAIN Table(st) |-> isin(Table(st)[i].cause, filters.causes)])
    ELSE st

\* One step of filter_data, by the name of the filter field it reads.
Step(field, st, filters) ==
    CASE field = "severity" -> SeverityFilter(st, filters)
      [] field = "vehicles_range" -> VehiclesFilter(st, filters)
      [] field = "pedestrians" -> PedestriansFilter(st, filters)
      [] field = "cyclists" -> CyclistsFilter(st, filters)
      [] field = "casualties_range" -> CasualtiesFilter(st, filters)
      [] field = "response_time_range" -> ResponseTimeFilter(st, filters)
      [] field = "causes" -> CausesFilter(st, filters)

RECURSIVE ApplySteps(_, _, _)
ApplySteps(order, st, filters) ==
    IF order = <<>> THEN st
    ELSE ApplySteps(Tail(order), Step(Head(order), st, filters), filters)

\* The order in which filter_data applies its steps.
CodeOrder ==
    <<"severity", "vehicles_range", "pedestrians", "cyclists",
      "casualties_range", "response_time_range", "causes">>

\* filter_data(df, filters) on heap h, applying the steps in `order`.
\* The result is the heap after the call, the reference returned and the
\* filters dictionary after the call (the code only reads it).
FilterInOrder(order, h, ref, filters) ==
    IF ref = None
    THEN [heap |-> h, ret |-> None, filters |-> filters]
    ELSE LET st == ApplySteps(order, copy(h, ref), filters)
         IN [heap |-> st.heap, ret |-> st.filtered_df, filters |-> filters]

\* Filtering in place: no copy, the rows are dropped from the table passed in.
filter_data_inplace(h, ref, filters) ==
    IF ref = None
    THEN [heap |-> h, ret |-> None, filters |-> filters]
    ELSE LET st == ApplySteps(CodeOrder, copy(h, ref), filters)
         IN [heap |-> [h EXCEPT ![ref] = st.heap[st.filtered_df]],
             ret |-> ref, filters |-> filters]

filter_data(h, ref, filters) == FilterInOrder(CodeOrder, h, ref, filters)

(***************************************************************************)
(* src/src/components/filters.py                                           *)
(***************************************************************************)
\* The dictionary initialize_filters and the reset button write.
NeutralFilters ==
    [severity |-> {}, vehicles_range |-> <<1, 4>>, pedestrians |-> FALSE,
     cyclists |-> FALSE, casualties_range |-> <<0, 23>>,
     response_time_range |-> <<5, 60>>, causes |-> {}]

\* No aggregation call has been made.
NoCall == [op |-> "none"]

NoSession == [k \in {} |-> NeutralFilters]

initialize_filters_overwriting(ss) == [filters |-> NeutralFilters]
initialize_filters(ss) ==
    IF "filters" \notin DOMAIN ss THEN [filters |-> NeutralFilters] ELSE ss

\* The values a user gives the widgets (a sample of each widget's domain).
SeverityChoices == SUBSET (SEVERITY_LEVELS \ {"Moderate"})
VehiclesRanges == {<<1, 4>>, <<2, 3>>}
CasualtiesRanges == {<<0, 23>>, <<1, 23>>, <<0, 0>>}
ResponseTimeRanges == {<<5, 60>>, <<10, 60>>}
CausesChoices == SUBSET (ACCIDENT_CAUSES \cap {"Speeding", "Weather"})

(***************************************************************************)
(* src/src/utils/data_processing.py, calculate_summary_stats.  A quotient  *)
(* of two numbers is kept as the pair of its numerator and denominator: a  *)
(* zero denominator with a zero numerator is NaN, with another numerator   *)
(* an infinity (numpy's float division never raises).                      *)
(***************************************************************************)
\* A division that gives 0 for a zero divisor.
QuotZeroOnZero(a, b) ==
    IF a = NaN \/ b = NaN THEN [num |-> 0, den |-> 0]
    ELSE IF b = 0 THEN [num |-> 0, den |-> 1]
    ELSE [num |-> a, den |-> b]

Quot(a, b) ==
    IF a = NaN \/ b = NaN THEN [num |-> 0, den |-> 0] ELSE [num |-> a, den |-> b]

IsNaNQ(q) == q.den = 0 /\ q.num = 0
IsInfQ(q) == q.den = 0 /\ q.num # 0
IsZeroQ(q) == q.den # 0 /\ q.num = 0
\* The quotient is the number n.
EqualsQ(q, n) == q.den # 0 /\ q.num = n * q.den

\* Series.sum(): the sum of the present cells (skipna), 0 when there is none.
RECURSIVE SumSkipNa(_)
SumSkipNa(col) ==
    IF col = <<>> THEN 0
    ELSE (IF Head(col) = NaN THEN 0 ELSE Head(col)) + SumSkipNa(Tail(col))

\* Series.count(): the number of present cells.
RECURSIVE CountPresent(_)
CountPresent(col) ==
    IF col = <<>> THEN 0
    ELSE (IF Head(col) = NaN THEN 0 ELSE 1) + CountPresent(Tail(col))

\* Series.mean() with the number of rows as divisor (missing cells counted).
MeanOverRows(col) == Quot(SumSkipNa(col), Len(col))

\* Series.mean(): the sum of the present cells over their number.
Mean(col) == Quot(SumSkipNa(col), CountPresent(col))

\* df[name]: the column of a table.
Column(t, name) == [i \in DOMAIN t |-> t[i][name]]

\* The dictionary without a key.
EmptyDict == [k \in {} |-> 0]

calculate_summary_stats(t) ==
    IF t = <<>>
    THEN EmptyDict
    ELSE [total_accidents |-> Len(t),
          total_fatalities |-> SumSkipNa(Column(t, "fatalities")),
          total_injuries |-> SumSkipNa(Column(t, "injuries")),
          avg_response_time |-> Mean(Column(t, "response_time")),
          total_economic_loss |-> SumSkipNa(Column(t, "economic_loss"))]

\* src/overview.py, main, lines 76-121: the metrics read the five keys of the
\* dictionary; a key that is not there raises KeyError. The divisions are
\* numpy's (no exception) or have len(df) > 0 as divisor.
MetricsFault(s) ==
    IF "total_accidents" \notin DOMAIN s THEN "KeyError" ELSE "none"

(***************************************************************************)
(* src/overview.py, main: one run of the script.  load_data() returns the  *)
(* cached table; render_filters() initialises the session, reads the       *)
(* widgets (each shows the session's value unless the user changed it) and *)
(* stores what they return; filter_data() filters; the summary statistics  *)
(* of the filtered table are computed and shown as metrics.  The table of  *)
(* the previous run is no longer referenced.                               *)
(***************************************************************************)
WidgetValues == initialize_filters(session_state).filters

RunScript(current_filters) ==
    LET h == IF filtered_df = None THEN heap ELSE Release(heap, filtered_df)
        r == filter_data(h, df, current_filters)
    IN /\ session_state' = [filters |-> r.filters]
       /\ heap' = r.heap
       /\ filtered_df' = r.ret
       /\ df' = df
       /\ stats' = calculate_summary_stats(heap'[filtered_df'])
       /\ fault' = MetricsFault(stats')
       /\ UNCHANGED <<agg, source, cache, calls, reads, sessions>>

\* A run no widget change caused: the first run, a page refresh.
Rerun == RunScript(WidgetValues)

SetSeverity == \E v \in SeverityChoices :
    /\ v # WidgetValues.severity
    /\ RunScript([WidgetValues EXCEPT !.severity = v])

SetVehiclesRange == \E v \in VehiclesRanges :
    /\ v # WidgetValues.vehicles_range
    /\ RunScript([WidgetValues EXCEPT !.vehicles_range = v])

TogglePedestrians ==
    RunScript([WidgetValues EXCEPT !.pedestrians = ~WidgetValues.pedestrians])

ToggleCyclists ==
    RunScript([WidgetValues EXCEPT !.cyclists = ~WidgetValues.cyclists])

SetCasualtiesRange == \E v \in CasualtiesRanges :
    /\ v # WidgetValues.casualties_range
    /\ RunScript([WidgetValues EXCEPT !.casualties_range = v])

SetResponseTimeRange == \E v \in ResponseTimeRanges :
    /\ v # WidgetValues.response_time_range
    /\ RunScript([WidgetValues EXCEPT !.response_time_range = v])

SetCauses == \E v \in CausesChoices :
    /\ v # WidgetValues.causes
    /\ RunScript([WidgetValues EXCEPT !.causes = v])

\* The reset button: the session's filters become the neutral dictionary and
\* st.rerun() starts the script again, whose widgets then show these values.
Reset == RunScript(NeutralFilters)

Init ==
    /\ df = 1
    /\ \E D \in Datasets : heap = (1 :> D)
    /\ session_state = NoSession
    /\ filtered_df = None
    /\ stats = EmptyDict
    /\ fault = "none"
    /\ agg = NoCall
    /\ source = <<>>
    /\ cache = <<>>
    /\ calls = 0
    /\ reads = 0
    /\ sessions = <<>>

Next ==
    \/ Rerun
    \/ SetSeverity
    \/ SetVehiclesRange
    \/ TogglePedestrians
    \/ ToggleCyclists
    \/ SetCasualtiesRange
    \/ SetResponseTimeRange
    \/ SetCauses
    \/ Reset

Spec == Init /\ [][Next]_vars

(***************************************************************************)
(* Names for the state the properties read.                                *)
(***************************************************************************)
\* A run of the script has finished: filter_data has returned a table.
Ran == filtered_df # None

\* The session's filter specification, the loaded table and the filtered table.
filters == session_state.filters
Loaded == heap[df]
Filtered == heap[filtered_df]

\* The table a call filter_data(table ref, S) returns, on the current heap.
Result(ref, S) == LET r == filter_data(heap, ref, S) IN r.heap[r.ret]

Fields == {CodeOrder[i] : i \in 1..Len(CodeOrder)}

\* Row r alone passes the step of `field` under S.
Passes(field, r, S) ==
    LET st == Step(field, copy((1 :> <<r>>), 1), S)
    IN Table(st) # <<>>

PassesAllBut(skipped, r, S) == \A f \in Fields \ skipped : Passes(f, r, S)

Rows(t) == {t[i] : i \in 1..Len(t)}

(***************************************************************************)
(* C1  Identity law.  Under the neutral specification filter_data returns  *)
(* exactly the rows of the dataset, in the same order, whatever the rows   *)
(* hold (missing cells, values outside the sliders' domains).              *)
(***************************************************************************)
C1_IdentityLaw ==
    (Ran /\ filters = NeutralFilters) => Filtered = Loaded

(***************************************************************************)
(* C2  Idempotence.  Filtering the filtered table again with the same      *)
(* specification returns the same rows in the same order.                  *)
(***************************************************************************)
C2_Idempotence ==
    Ran => Result(filtered_df, filters) = Filtered

C2_Witness ==
    /\ Ran
    /\ filters # NeutralFilters
    /\ Filtered # <<>>
    /\ Len(Filtered) < Len(Loaded)

(***************************************************************************)
(* Restricting one field of a specification.                               *)
(***************************************************************************)
FilterSpecs ==
    [severity : SeverityChoices, vehicles_range : VehiclesRanges,
     pedestrians : BOOLEAN, cyclists : BOOLEAN,
     casualties_range : CasualtiesRanges,
     response_time_range : ResponseTimeRanges, causes : CausesChoices]

\* The specifications of FilterSpecs that differ from S in at most one field.
OneFieldChanged(S) ==
    {[S EXCEPT !.severity = v] : v \in SeverityChoices}
    \cup {[S EXCEPT !.vehicles_range = v] : v \in VehiclesRanges}
    \cup {[S EXCEPT !.pedestrians = v] : v \in BOOLEAN}
    \cup {[S EXCEPT !.cyclists = v] : v \in BOOLEAN}
    \cup {[S EXCEPT !.casualties_range = v] : v \in CasualtiesRanges}
    \cup {[S EXCEPT !.response_time_range = v] : v \in ResponseTimeRanges}
    \cup {[S EXCEPT !.causes = v] : v \in CausesChoices}

\* Range b is strictly inside range a.
Narrower(a, b) == a[1] <= b[1] /\ b[2] <= a[2] /\ a # b

\* S2 differs from S in the one field f.
OnlyDiffers(S, S2, f) == \A g \in Fields \ {f} : S2[g] = S[g]

RestrictsRangeOrToggle(S, S2) ==
    \/ OnlyDiffers(S, S2, "vehicles_range")
        /\ Narrower(S.vehicles_range, S2.vehicles_range)
    \/ OnlyDiffers(S, S2, "casualties_range")
        /\ Narrower(S.casualties_range, S2.casualties_range)
    \/ OnlyDiffers(S, S2, "response_time_range")
        /\ Narrower(S.response_time_range, S2.response_time_range)
    \/ OnlyDiffers(S, S2, "pedestrians") /\ ~S.pedestrians /\ S2.pedestrians
    \/ OnlyDiffers(S, S2, "cyclists") /\ ~S.cyclists /\ S2.cyclists

\* A value is added to the severity or causes set.
AddsToSet(S, S2) ==
    \/ OnlyDiffers(S, S2, "severity")
        /\ S.severity \subseteq S2.severity /\ S.severity # S2.severity
    \/ OnlyDiffers(S, S2, "causes")
        /\ S.causes \subseteq S2.causes /\ S.causes # S2.causes

\* A value is added to an empty severity or causes set.
AddsToEmptySet(S, S2) ==
    \/ OnlyDiffers(S, S2, "severity") /\ S.severity = {} /\ S2.severity # {}
    \/ OnlyDiffers(S, S2, "causes") /\ S.causes = {} /\ S2.causes # {}

(***************************************************************************)
(* C3  Monotonicity, as claimed.  Restricting exactly one field (narrowing *)
(* a range, switching pedestrians or cyclists on, adding a value to the    *)
(* severity or causes set) never gives more rows.                          *)
(***************************************************************************)
C3_MonotoneAddingToAnySet ==
    Ran => \A S2 \in OneFieldChanged(filters) :
              (RestrictsRangeOrToggle(filters, S2) \/ AddsToSet(filters, S2))
                  => Len(Result(df, S2)) <= Len(Filtered)

(***************************************************************************)
(* C3  Monotonicity, amended.  Narrowing a range, switching pedestrians or *)
(* cyclists on, or adding a value to an EMPTY severity or causes set never *)
(* gives more rows.                                                        *)
(***************************************************************************)
C3_Monotone ==
    Ran => \A S2 \in OneFieldChanged(filters) :
              (RestrictsRangeOrToggle(filters, S2) \/ AddsToEmptySet(filters, S2))
                  => Len(Result(df, S2)) <= Len(Filtered)

\* A restriction that removes a row: the vehicles range narrowed to (2,3)
\* drops the one-vehicle row of the scenario.
C3_Witness ==
    /\ Ran
    /\ Loaded = <<Row1, Row2>>
    /\ filters = NeutralFilters
    /\ RestrictsRangeOrToggle(filters, [NeutralFilters EXCEPT !.vehicles_range = <<2, 3>>])
    /\ Result(df, [NeutralFilters EXCEPT !.vehicles_range = <<2, 3>>]) = <<Row1>>
    /\ Filtered = <<Row1, Row2>>

(***************************************************************************)
(* C4  The result is the subsequence of the dataset made of the rows that  *)
(* pass all seven steps, in their order, and applying the seven steps in   *)
(* another order gives the same table.                                     *)
(***************************************************************************)
Reverse(s) == [i \in 1..Len(s) |-> s[Len(s) + 1 - i]]

OtherOrders ==
    {Reverse(CodeOrder),
     <<"causes", "casualties_range", "severity", "cyclists",
       "response_time_range", "pedestrians", "vehicles_range">>,
     <<"response_time_range", "vehicles_range", "causes", "pedestrians",
       "severity", "casualties_range", "cyclists">>}

C4_Conjunction ==
    Ran => /\ Filtered = SelectSeq(Loaded, LAMBDA r : PassesAllBut({}, r, filters))
           /\ \A order \in OtherOrders :
                LET o == FilterInOrder(order, heap, df, filters)
                IN o.heap[o.ret] = Filtered

\* Two steps are active; one row fails the severity step alone and is removed,
\* another row passes all seven steps and survives.
C4_Witness ==
    /\ Ran
    /\ filters.severity # {}
    /\ filters.causes # {}
    /\ \E i, j \in 1..Len(Loaded) :
          /\ ~Passes("severity", Loaded[i], filters)
          /\ PassesAllBut({"severity"}, Loaded[i], filters)
          /\ PassesAllBut({}, Loaded[j], filters)
          /\ Filtered = <<Loaded[j]>>

(***************************************************************************)
(* C5  filter_data does not mutate its input: after the call every table   *)
(* that existed before it (the dataset among them) holds the same rows in  *)
(* the same order, the specification is unchanged, and the table returned  *)
(* is a new object, distinct from the dataset.                             *)
(***************************************************************************)
C5_NoMutation ==
    LET S == WidgetValues
        r == filter_data(heap, df, S)
    IN /\ \A i \in DOMAIN heap : i \in DOMAIN r.heap /\ r.heap[i] = heap[i]
       /\ r.filters = S
       /\ r.ret # df
       /\ r.ret \notin DOMAIN heap

\* A call has removed a row from its result and the dataset still has it.
C5_Witness ==
    /\ Ran
    /\ Loaded = <<Row1, Row2>>
    /\ Filtered = <<Row1>>
    /\ filtered_df # df

(***************************************************************************)
(* C6  Set-valued fields.  An empty severity (causes) set imposes no       *)
(* constraint; a non-empty one keeps a row only if the row's severity      *)
(* (cause) is a member of it.  On the two-row scenario severity = {Severe} *)
(* keeps only the Severe row.                                              *)
(***************************************************************************)
C6_SetFields ==
    Ran =>
      /\ Filtered = SelectSeq(Loaded, LAMBDA r :
            /\ filters.severity = {} \/ r.severity \in filters.severity
            /\ filters.causes = {} \/ r.cause \in filters.causes
            /\ PassesAllBut({"severity", "causes"}, r, filters))
      /\ (Loaded = <<Row1, Row2>>
            /\ filters = [NeutralFilters EXCEPT !.severity = {"Severe"}])
          => Filtered = <<Row1>>

C6_Witness ==
    /\ Ran
    /\ Loaded = <<Row1, Row2>>
    /\ filters = [NeutralFilters EXCEPT !.severity = {"Severe"}]
    /\ Filtered = <<Row1>>

(***************************************************************************)
(* C7  Casualties.  A row passes casualties_range = (min, max) if and only *)
(* if min <= injuries + fatalities <= max, both bounds inclusive, the sum  *)
(* taken per row (a sum with a missing term is missing and is in no        *)
(* range).  On the scenario (1, 23) drops the 0 + 0 row and keeps the      *)
(* 3 + 1 row.                                                              *)
(***************************************************************************)
InCasualtiesRange(r, range) ==
    /\ r.injuries # NaN
    /\ r.fatalities # NaN
    /\ range[1] <= r.injuries + r.fatalities
    /\ r.injuries + r.fatalities <= range[2]

C7_Casualties ==
    Ran =>
      /\ Filtered = SelectSeq(Loaded, LAMBDA r :
            /\ InCasualtiesRange(r, filters.casualties_range)
            /\ PassesAllBut({"casualties_range"}, r, filters))
      /\ (Loaded = <<Row1, Row2>>
            /\ filters = [NeutralFilters EXCEPT !.casualties_range = <<1, 23>>])
          => Filtered = <<Row1>>

C7_Witness ==
    /\ Ran
    /\ Loaded = <<Row1, Row2>>
    /\ filters = [NeutralFilters EXCEPT !.casualties_range = <<1, 23>>]
    /\ Filtered = <<Row1>>

(***************************************************************************)
(* C8  Vehicles.  A row passes vehicles_range = (min, max) if and only if  *)
(* min <= vehicles <= max, inclusive, and the test is made on every call:  *)
(* at the neutral bounds (1, 4) a row outside 1..4 is still removed.       *)
(***************************************************************************)
InVehiclesRange(r, range) ==
    r.vehicles # NaN /\ range[1] <= r.vehicles /\ r.vehicles <= range[2]

C8_Vehicles ==
    Ran =>
      /\ Filtered = SelectSeq(Loaded, LAMBDA r :
            /\ InVehiclesRange(r, filters.vehicles_range)
            /\ PassesAllBut({"vehicles_range"}, r, filters))
      /\ filters.vehicles_range = <<1, 4>>
          => \A r \in Rows(Filtered) : r.vehicles \in 1..4

\* The neutral range has removed the five-vehicle row and kept another one.
C8_Witness ==
    /\ Ran
    /\ filters = NeutralFilters
    /\ Loaded = <<Row1, RowFiveVehicles>>
    /\ Filtered = <<Row1>>

(***************************************************************************)
(* C9  No row of the output has a missing value in a column a numeric      *)
(* range comparison was applied to; in particular a row with a missing     *)
(* response time is never in the output when response_time_range is a     *)
(* true restriction.                                                       *)
(***************************************************************************)
C9_NoMissingInOutput ==
    Ran => \A r \in Rows(Filtered) :
              /\ Len(filters.response_time_range) > 0 => r.response_time # NaN
              /\ Len(filters.vehicles_range) > 0 => r.vehicles # NaN
              /\ Len(filters.casualties_range) > 0
                    => (r.injuries # NaN /\ r.fatalities # NaN)

\* A restricting range met a row without a response time and removed it,
\* keeping the row whose time is in the range.
C9_Witness ==
    /\ Ran
    /\ filters.response_time_range = <<10, 60>>
    /\ Loaded = <<Row1, RowNoTime>>
    /\ Filtered = <<Row1>>

(***************************************************************************)
(* C10  Under the full neutral response_time_range (5, 60) a row whose     *)
(* response time is missing passes the response-time step: if it passes    *)
(* the other six steps it is in the output.                                *)
(***************************************************************************)
C10_MissingTimeKeptAtNeutral ==
    (Ran /\ filters.response_time_range = <<5, 60>>)
        => \A r \in Rows(Loaded) :
              (r.response_time = NaN
                  /\ PassesAllBut({"response_time_range"}, r, filters))
              => r \in Rows(Filtered)

(***************************************************************************)
(* The aggregation layer.  Its functions are called on a loaded table      *)
(* whose rows carry, besides the filtered columns, the keys and the        *)
(* measures of the charts.  A Date is the pair <<year, month number>>      *)
(* (data_loader.py gives every Date the first day of its month).           *)
(***************************************************************************)
MaxAggRows == 3

month_order == <<"January", "February", "March", "April", "May", "June", "July",
                 "August", "September", "October", "November", "December">>

\* data_loader.py, month_map: the number of a month name, NaN for another text.
month_map(m) ==
    IF \E i \in DOMAIN month_order : month_order[i] = m
    THEN CHOOSE i \in DOMAIN month_order : month_order[i] = m
    ELSE NaN

MkKeys(year, month, day, time, region, urban, age, gender, density, cost, claims) ==
    [year |-> year, month |-> month, date |-> <<year, month_map(month)>>,
     day_of_week |-> day, time_of_day |-> time, region |-> region,
     urban_rural |-> urban, driver_age_group |-> age, driver_gender |-> gender,
     population_density |-> [number |-> density],
     medical_cost |-> cost, insurance_claims |-> claims]

RowNoVehicles == MkRow("Minor", 0, 1, 0, 1, 0, 15, "Weather", 10)

AggRow1 == Row1 @@ MkKeys(2023, "March", "Monday", "Morning", "North", "Urban",
                          "18-25", "Male", 100, 50, 20)
AggRow2 == Row2 @@ MkKeys(2023, "March", "Tuesday", "Night", "South", "Rural",
                          "26-40", "Female", 200, 30, 10)
AggRow3 == RowNoTime @@ MkKeys(2022, "May", "Monday", "Night", "North", "Rural",
                               "18-25", "Female", 100, 40, 0)
AggRow4 == RowNoVehicles @@ MkKeys(2023, "February", "Sunday", "Morning", "South",
                                   "Urban", "61+", "Male", 300, 0, 5)
AggRow5 == RowNoInjuries @@ MkKeys(2023, "March", "Tuesday", "Night", "South",
                                   "Rural", "26-40", "Female", 400, 60, 0)

AggRows == <<AggRow1, AggRow2, AggRow3, AggRow4, AggRow5>>

\* The tables the aggregations are called on: at most MaxAggRows rows of
\* AggRows, in their order.
AggDatasets ==
    {[k \in 1..Cardinality(I) |->
        AggRows[CHOOSE i \in I : Cardinality({j \in I : j < i}) = k - 1]] :
     I \in {J \in SUBSET DOMAIN AggRows : Cardinality(J) <= MaxAggRows}}

InitAgg ==
    /\ df = 1
    /\ \E D \in AggDatasets : heap = (1 :> D)
    /\ session_state = NoSession
    /\ filtered_df = None
    /\ stats = EmptyDict
    /\ fault = "none"
    /\ agg = NoCall
    /\ source = <<>>
    /\ cache = <<>>
    /\ calls = 0
    /\ reads = 0
    /\ sessions = <<>>

\* A call op(df) that returns ret or ends with the exception f.
Call(op, ret, f) ==
    /\ agg' = [op |-> op, ret |-> ret]
    /\ fault' = f
    /\ UNCHANGED <<heap, df, session_state, filtered_df, stats,
                   source, cache, calls, reads, sessions>>

\* A call op(df) that first assigns columns of df, which makes it the table
\* t, and then returns ret or ends with the exception f.
CallAssigning(op, t, ret, f) ==
    /\ agg' = [op |-> op, ret |-> ret]
    /\ fault' = f
    /\ heap' = [heap EXCEPT ![df] = t]
    /\ UNCHANGED <<df, session_state, filtered_df, stats,
                   source, cache, calls, reads, sessions>>

\* The call op has returned (it has not raised).
Returned(op) == agg.op = op /\ fault = "none"

CallSummaryStats ==
    Call("calculate_summary_stats", calculate_summary_stats(Loaded), "none")

\* The rows of a table whose cell in a column is present, and their sum.
Present(t, name) == {i \in DOMAIN t : t[i][name] # NaN}

RECURSIVE SumOf(_, _, _)
SumOf(t, name, I) ==
    IF I = {} THEN 0
    ELSE LET i == CHOOSE j \in I : TRUE
         IN t[i][name] + SumOf(t, name, I \ {i})

SumPresent(t, name) == SumOf(t, name, Present(t, name))

SummaryFields == {"total_accidents", "total_fatalities", "total_injuries",
                  "avg_response_time", "total_economic_loss"}

(***************************************************************************)
(* C11  For a non-empty table, calculate_summary_stats returns the number  *)
(* of rows, the sums of the present cells of the fatalities, injuries and  *)
(* economic loss columns, and the mean of the present response times; the  *)
(* mean is NaN, not 0, when every response time is missing.  On the table  *)
(* of Row1 and Row2: 2 accidents, 1 fatality, 3 injuries, mean 10.         *)
(***************************************************************************)
C11_SummaryStats ==
    (Returned("calculate_summary_stats") /\ Loaded # <<>>) =>
        LET s == agg.ret
            n == Cardinality(Present(Loaded, "response_time"))
        IN /\ DOMAIN s = SummaryFields
           /\ s.total_accidents = Len(Loaded)
           /\ s.total_fatalities = SumPresent(Loaded, "fatalities")
           /\ s.total_injuries = SumPresent(Loaded, "injuries")
           /\ s.total_economic_loss = SumPresent(Loaded, "economic_loss")
           /\ n > 0 => /\ s.avg_response_time.den # 0
                       /\ s.avg_response_time.num * n =
                              SumPresent(Loaded, "response_time")
                              * s.avg_response_time.den
           /\ n = 0 => /\ IsNaNQ(s.avg_response_time)
                       /\ ~EqualsQ(s.avg_response_time, 0)
           /\ Loaded = <<AggRow1, AggRow2>> =>
                  /\ s.total_accidents = 2
                  /\ s.total_fatalities = 1
                  /\ s.total_injuries = 3
                  /\ EqualsQ(s.avg_response_time, 10)

\* Reached: the statistics of a table with a missing and a present response
\* time, of a table whose response times are all missing, and of the two-row
\* scenario are all computed somewhere; this state is the first.
C11_Witness ==
    /\ Returned("calculate_summary_stats")
    /\ Present(Loaded, "response_time") \notin {{}, DOMAIN Loaded}
    /\ Present(Loaded, "injuries") # DOMAIN Loaded

(***************************************************************************)
(* C12  For an empty table, calculate_summary_stats returns a result with  *)
(* all five fields, the count being 0 and the others the zero or no-data   *)
(* value, and raises nothing.                                              *)
(***************************************************************************)
C12_EmptyHasAllFields ==
    (agg.op = "calculate_summary_stats" /\ Loaded = <<>>) =>
        /\ fault = "none"
        /\ DOMAIN agg.ret = SummaryFields
        /\ agg.ret.total_accidents = 0
        /\ agg.ret.total_fatalities = 0
        /\ agg.ret.total_injuries = 0
        /\ agg.ret.total_economic_loss = 0
        /\ IsNaNQ(agg.ret.avg_response_time)


(***************************************************************************)
(* C13  A run of the overview script never ends with an exception, also    *)
(* when the filters select no row.                                         *)
(***************************************************************************)
C13_RunNeverFaults == Ran => fault = "none"

(***************************************************************************)
(* src/src/utils/data_processing.py, calculate_rates: an empty DataFrame   *)
(* for an empty table, else one row of rates per row of the table.         *)
(***************************************************************************)
\* Series * 5 + Series: a missing cell makes the result missing.
Times(a, k) == IF a = NaN THEN NaN ELSE a * k

calculate_rates(t) ==
    IF t = <<>>
    THEN <<>>
    ELSE [i \in DOMAIN t |->
            [fatality_rate |-> Quot(t[i].fatalities, t[i].vehicles),
             injury_rate |-> Quot(t[i].injuries, t[i].vehicles),
             severity_index |->
                 Quot(Add(Times(t[i].fatalities, 5), t[i].injuries), Len(t))]]

CallRates == Call("calculate_rates", calculate_rates(Loaded), "none")

\* The quotient q is a / b, for present a and b with b # 0.
IsRatio(q, a, b) == q.den # 0 /\ q.num * b = a * q.den

(***************************************************************************)
(* C14  calculate_rates gives every row fatality_rate = fatalities /       *)
(* vehicles and injury_rate = injuries / vehicles; for a row with 0        *)
(* vehicles both rates are NaN or an infinity, never 0, and the call       *)
(* raises nothing.                                                         *)
(***************************************************************************)
C14_Rates ==
    agg.op = "calculate_rates" =>
        /\ fault = "none"
        /\ Len(agg.ret) = Len(Loaded)
        /\ \A i \in DOMAIN Loaded :
              LET r == Loaded[i]
                  q == agg.ret[i]
              IN /\ (r.vehicles \notin {NaN, 0} /\ r.fatalities # NaN) =>
                        IsRatio(q.fatality_rate, r.fatalities, r.vehicles)
                 /\ (r.vehicles \notin {NaN, 0} /\ r.injuries # NaN) =>
                        IsRatio(q.injury_rate, r.injuries, r.vehicles)
                 /\ r.vehicles = 0 =>
                        /\ IsNaNQ(q.fatality_rate) \/ IsInfQ(q.fatality_rate)
                        /\ IsNaNQ(q.injury_rate) \/ IsInfQ(q.injury_rate)
                        /\ ~IsZeroQ(q.fatality_rate)
                        /\ ~IsZeroQ(q.injury_rate)

\* Reached: the rates of a table with a row without vehicles (0 fatalities,
\* 1 injury: NaN and an infinity) and a row with vehicles.
C14_Witness ==
    /\ Returned("calculate_rates")
    /\ \E i \in DOMAIN Loaded :
          /\ Loaded[i].vehicles = 0
          /\ IsNaNQ(agg.ret[i].fatality_rate)
          /\ IsInfQ(agg.ret[i].injury_rate)
    /\ \E i \in DOMAIN Loaded : Loaded[i].vehicles > 0

(***************************************************************************)
(* src/src/pages/temporal.py, render_temporal_page, and                    *)
(* src/src/pages/financial.py, render_financial_page: the variations of    *)
(* the key figures.  Each is kept with its two operands.                   *)
(***************************************************************************)
\* Series.max() of the Date column: NaT (None) for an empty table.
MaxDate(t) ==
    IF t = <<>> THEN None
    ELSE LET i == CHOOSE j \in DOMAIN t :
                     \A k \in DOMAIN t :
                         t[k].date[1] * 12 + t[k].date[2]
                             <= t[j].date[1] * 12 + t[j].date[2]
         IN t[i].date

\* The rows of the year of the latest Date less `back` years; none when the
\* table is empty (every comparison with NaT's year is False).
RowsOfYear(t, back) ==
    IF t = <<>> THEN <<>>
    ELSE SelectRows(t, [i \in DOMAIN t |-> t[i].date[1] = MaxDate(t)[1] - back])

\* filtered_df[filtered_df['Date'] <= max - DateOffset(months=1)]
PreviousRows(t) ==
    IF t = <<>> THEN <<>>
    ELSE SelectRows(t, [i \in DOMAIN t |->
             t[i].date[1] * 12 + t[i].date[2]
                 <= MaxDate(t)[1] * 12 + MaxDate(t)[2] - 1])

\* temporal.py: (current - previous) / previous * 100 if previous > 0 else 0
GuardedVariation(current, previous) ==
    [current |-> Quot(current, 1), previous |-> Quot(previous, 1),
     variation |-> IF previous > 0
                   THEN Quot((current - previous) * 100, previous)
                   ELSE Quot(0, 1)]

\* financial.py: (total - previous) / previous * 100, numpy scalars
Variation(current, previous) ==
    [current |-> Quot(current, 1), previous |-> Quot(previous, 1),
     variation |-> Quot((current - previous) * 100, previous)]

\* financial.py, kpi4: the same on two averages, each a quotient that is
\* NaN (0 / 0) for a table without rows.
VariationOfAverages(current, previous) ==
    [current |-> current, previous |-> previous,
     variation |-> IF IsNaNQ(current) \/ IsNaNQ(previous)
                   THEN Quot(NaN, NaN)
                   ELSE Quot((current.num * previous.den
                                  - previous.num * current.den) * 100,
                             previous.num * current.den)]

temporal_variations(t) ==
    LET current_data == RowsOfYear(t, 0)
        previous_data == RowsOfYear(t, 1)
    IN [accidents |-> GuardedVariation(Len(current_data), Len(previous_data)),
        fatalities |->
            GuardedVariation(SumSkipNa(Column(current_data, "fatalities")),
                             SumSkipNa(Column(previous_data, "fatalities"))),
        injuries |->
            GuardedVariation(SumSkipNa(Column(current_data, "injuries")),
                             SumSkipNa(Column(previous_data, "injuries")))]

financial_variations(t) ==
    LET previous_df == PreviousRows(t)
        total_cost == SumSkipNa(Column(t, "medical_cost"))
        previous_cost == SumSkipNa(Column(previous_df, "medical_cost"))
    IN [medical_cost |-> Variation(total_cost, previous_cost),
        economic_loss |->
            Variation(SumSkipNa(Column(t, "economic_loss")),
                      SumSkipNa(Column(previous_df, "economic_loss"))),
        insurance_claims |->
            Variation(SumSkipNa(Column(t, "insurance_claims")),
                      SumSkipNa(Column(previous_df, "insurance_claims"))),
        avg_cost |->
            VariationOfAverages(Quot(total_cost, Len(t)),
                                Quot(previous_cost, Len(previous_df)))]

CallTemporalVariations ==
    Call("temporal_variations", temporal_variations(Loaded), "none")

CallFinancialVariations ==
    Call("financial_variations", financial_variations(Loaded), "none")

\* The variation v is (current - previous) / previous * 100 of its operands,
\* and NaN or an infinity, not 0, when the previous value is 0.
WellDefinedVariation(v) ==
    /\ (v.previous.den # 0 /\ v.previous.num # 0 /\ v.current.den # 0) =>
          /\ v.variation.den # 0
          /\ v.variation.num * v.previous.num * v.current.den =
                 (v.current.num * v.previous.den
                      - v.previous.num * v.current.den) * 100 * v.variation.den
    /\ IsZeroQ(v.previous) =>
          /\ IsNaNQ(v.variation) \/ IsInfQ(v.variation)
          /\ ~IsZeroQ(v.variation)

(***************************************************************************)
(* C15  Every variation of the temporal page (accidents, fatalities,       *)
(* injuries) and of the financial page (medical cost, economic loss,       *)
(* insurance claims, average cost) is (current - previous) / previous *    *)
(* 100, and is NaN or an infinity, never 0 and never an exception, when    *)
(* the previous value is 0.                                                *)
(***************************************************************************)
C15_VariationUndefinedAtZero ==
    agg.op \in {"temporal_variations", "financial_variations"} =>
        /\ fault = "none"
        /\ \A k \in DOMAIN agg.ret : WellDefinedVariation(agg.ret[k])

(***************************************************************************)
(* The pivots of the pages: DataFrame.pivot_table(index, columns, values,  *)
(* aggfunc='sum').fillna(0).  A key column made a pd.Categorical carries   *)
(* its declared categories; pivot_table and groupby are called without     *)
(* `observed`, whose default is False before pandas 3 (every declared      *)
(* category is a label of the result) and True from pandas 3 on (only the  *)
(* categories that occur).  No pandas version is pinned, so `observed` is  *)
(* either.                                                                 *)
(***************************************************************************)
day_order == {"Monday", "Tuesday", "Wednesday", "Thursday", "Friday",
              "Saturday", "Sunday"}
time_order == {"Morning", "Afternoon", "Evening", "Night"}
driver_age_order == {"<18", "18-25", "26-40", "41-60", "61+"}
density_labels == <<"Tres faible", "Faible", "Moyen", "Forte", "Tres forte">>
months == {month_order[i] : i \in DOMAIN month_order}

\* The key column is not categorical.
Plain == {}

\* The values of a key column that occur in the table.
Observed(t, key) == {t[i][key] : i \in DOMAIN t}

\* The labels a key contributes to a grouping.
Labels(t, key, categories, observed) ==
    IF categories = Plain THEN Observed(t, key)
    ELSE IF observed THEN Observed(t, key) \cap categories
    ELSE categories

\* The sum of a measure over the rows with the given values of two keys.
CellSum(t, rowkey, r, colkey, c, values) ==
    SumSkipNa(Column(
        SelectRows(t, [i \in DOMAIN t |-> t[i][rowkey] = r /\ t[i][colkey] = c]),
        values))

pivot_table(t, rowkey, rowcats, colkey, colcats, values, observed) ==
    LET index == Labels(t, rowkey, rowcats, observed)
        columns == Labels(t, colkey, colcats, observed)
    IN [index |-> index, columns |-> columns,
        cells |-> [p \in index \X columns |->
                      CellSum(t, rowkey, p[1], colkey, p[2], values)]]

\* pd.qcut(x, q=5, labels): the five-fold of the k-th quantile edge of the
\* sorted values x (linear interpolation at position k * (n - 1) / 5).
Sorted(col) ==
    CHOOSE s \in [DOMAIN col -> {col[i] : i \in DOMAIN col}] :
        /\ \A v \in {col[i] : i \in DOMAIN col} :
              Cardinality({i \in DOMAIN col : s[i] = v})
                  = Cardinality({i \in DOMAIN col : col[i] = v})
        /\ \A i, j \in DOMAIN col : i < j => s[i] <= s[j]

Edge5(col, k) ==
    LET x == Sorted(col)
        p == k * (Len(col) - 1)
        lo == (p \div 5) + 1
    IN IF p % 5 = 0 THEN 5 * x[lo]
       ELSE 5 * x[lo] + (p % 5) * (x[lo + 1] - x[lo])

\* qcut raises ValueError("Bin edges must be unique") when two edges are
\* equal, which includes the column without a value.
EdgesUnique(col) ==
    /\ col # <<>>
    /\ \A j, k \in 0..5 : j < k => Edge5(col, j) # Edge5(col, k)

\* The label of the bin (edge k-1, edge k] of a value, the lowest edge included.
qcut(col, v) ==
    density_labels[CHOOSE k \in 1..5 :
        /\ 5 * v <= Edge5(col, k)
        /\ \A j \in 1..(k - 1) : 5 * v > Edge5(col, j)]

\* df['Population Density'] = pd.qcut(df['Population Density'], q=5, labels=...)
\* A cell of the Population Density column is a number, until the column is
\* replaced by the labels of its bins.
Densities(t) == [i \in DOMAIN t |-> t[i].population_density.number]

WithDensityBins(t) ==
    [i \in DOMAIN t |->
        [t[i] EXCEPT !.population_density =
            [label |-> qcut(Densities(t), t[i].population_density.number)]]]

\* The missing value of a text column.
NaNKey == "nan"

\* df[key] = pd.Categorical(df[key], categories=..., ordered=True): a value
\* outside the categories becomes missing, the others stay.
AsCategorical(t, key, categories) ==
    [i \in DOMAIN t |->
        [t[i] EXCEPT ![key] = IF @ \in categories THEN @ ELSE NaNKey]]

CallWeeklyHourlyHeatmap ==
    \E observed \in BOOLEAN :
        LET t == AsCategorical(AsCategorical(Loaded, "day_of_week", day_order),
                               "time_of_day", time_order)
        IN CallAssigning("create_weekly_hourly_heatmap", t,
               pivot_table(t, "day_of_week", day_order,
                           "time_of_day", time_order, "fatalities", observed),
               "none")

CallDensityHeatmap ==
    \E observed \in BOOLEAN :
        LET t == AsCategorical(Loaded, "time_of_day", time_order)
        IN CallAssigning("create_density_heatmap", t,
               pivot_table(t, "region", Plain,
                           "time_of_day", time_order, "fatalities", observed),
               "none")

\* The Population Density column still holds the numbers of the source (the
\* financial page calls create_economic_density once on a filtered table).
DensityIsNumeric(t) ==
    \A i \in DOMAIN t : "number" \in DOMAIN t[i].population_density

CallEconomicDensity ==
    /\ DensityIsNumeric(Loaded)
    /\ \E observed \in BOOLEAN :
        IF EdgesUnique(Densities(Loaded))
        THEN CallAssigning("create_economic_density", WithDensityBins(Loaded),
                  pivot_table(WithDensityBins(Loaded), "population_density",
                              {[label |-> density_labels[k]] : k \in 1..5},
                              "severity", Plain, "economic_loss", observed),
                  "none")
        ELSE Call("create_economic_density", None, "ValueError")

\* The table a pivot was computed from: the table of the call, with the key
\* columns as the call has assigned them.
PivotInput == Loaded

PivotKeys ==
    CASE agg.op = "create_weekly_hourly_heatmap" -> <<"day_of_week", "time_of_day">>
      [] agg.op = "create_density_heatmap" -> <<"region", "time_of_day">>
      [] agg.op = "create_economic_density" -> <<"population_density", "severity">>

Pivots == {"create_weekly_hourly_heatmap", "create_density_heatmap",
           "create_economic_density"}

(***************************************************************************)
(* C16  Every pivot of a table with rows returns a matrix whose row       *)
(* labels and column labels are exactly the row-key and column-key values  *)
(* that occur in the table (|R| x |C| cells), with 0 in every cell whose   *)
(* pair does not occur.                                                    *)
(***************************************************************************)
C16_PivotDensity ==
    (agg.op \in Pivots /\ Loaded # <<>>) =>
        /\ fault = "none"
        /\ agg.ret.index = Observed(PivotInput, PivotKeys[1])
        /\ agg.ret.columns = Observed(PivotInput, PivotKeys[2])
        /\ DOMAIN agg.ret.cells = agg.ret.index \X agg.ret.columns
        /\ \A p \in DOMAIN agg.ret.cells :
              (~\E i \in DOMAIN PivotInput :
                   /\ PivotInput[i][PivotKeys[1]] = p[1]
                   /\ PivotInput[i][PivotKeys[2]] = p[2])
                  => agg.ret.cells[p] = 0

(***************************************************************************)
(* The group-by rollups: df.groupby(keys).agg({measure: 'sum', ...}).      *)
(* The result has one row per group.                                       *)
(***************************************************************************)
GroupSums(t, mask, measures) ==
    [m \in measures |-> SumSkipNa(Column(SelectRows(t, mask), m))]

groupby(t, key, categories, measures, observed) ==
    [g \in Labels(t, key, categories, observed) |->
        GroupSums(t, [i \in DOMAIN t |-> t[i][key] = g], measures)]

\* Two keys: the groups are the pairs that occur, or, with a categorical
\* key and observed=False, every pair of a label of each key.
groupby2(t, key1, categories1, key2, categories2, measures, observed) ==
    LET pairs == Labels(t, key1, categories1, observed)
                     \X Labels(t, key2, categories2, observed)
        occurring == {g \in pairs : \E i \in DOMAIN t :
                         t[i][key1] = g[1] /\ t[i][key2] = g[2]}
        groups == IF observed \/ (categories1 = Plain /\ categories2 = Plain)
                  THEN occurring ELSE pairs
    IN [g \in groups |->
           GroupSums(t, [i \in DOMAIN t |-> t[i][key1] = g[1] /\ t[i][key2] = g[2]],
                     measures)]

\* The empty DataFrame: no group.
NoGroups == [g \in {} |-> 0]

prepare_temporal_data(t) ==
    IF t = <<>> THEN NoGroups
    ELSE groupby(t, "date", Plain,
                 {"fatalities", "injuries", "economic_loss"}, TRUE)

prepare_geographic_data(t) ==
    IF t = <<>> THEN NoGroups
    ELSE groupby2(t, "region", Plain, "urban_rural", Plain,
                  {"fatalities", "injuries", "economic_loss"}, TRUE)

create_monthly_distribution(t, observed) ==
    groupby(t, "month", months, {"fatalities", "injuries"}, observed)

\* The metric of the 'Male' groups is negated for the pyramid.
create_age_gender_pyramid(t, observed) ==
    LET data == groupby2(t, "driver_age_group", driver_age_order,
                         "driver_gender", Plain, {"fatalities", "injuries"},
                         observed)
    IN [g \in DOMAIN data |->
           IF g[2] = "Male"
           THEN [data[g] EXCEPT !.fatalities = 0 - data[g].fatalities]
           ELSE data[g]]

CallPrepareTemporalData ==
    Call("prepare_temporal_data", prepare_temporal_data(Loaded), "none")

CallPrepareGeographicData ==
    Call("prepare_geographic_data", prepare_geographic_data(Loaded), "none")

CallMonthlyDistribution ==
    \E observed \in BOOLEAN :
        LET t == AsCategorical(Loaded, "month", months)
        IN CallAssigning("create_monthly_distribution", t,
               create_monthly_distribution(t, observed), "none")

CallAgeGenderPyramid ==
    \E observed \in BOOLEAN :
        LET t == AsCategorical(Loaded, "driver_age_group", driver_age_order)
        IN CallAssigning("create_age_gender_pyramid", t,
               create_age_gender_pyramid(t, observed), "none")

\* The key or keys each rollup groups by.
GroupKeys ==
    CASE agg.op = "prepare_temporal_data" -> <<"date">>
      [] agg.op = "prepare_geographic_data" -> <<"region", "urban_rural">>
      [] agg.op = "create_monthly_distribution" -> <<"month">>
      [] agg.op = "create_age_gender_pyramid" -> <<"driver_age_group", "driver_gender">>

\* The row has the key values of the group g.
InGroup(r, g) ==
    IF Len(GroupKeys) = 1 THEN r[GroupKeys[1]] = g
    ELSE r[GroupKeys[1]] = g[1] /\ r[GroupKeys[2]] = g[2]

Rollups == {"prepare_temporal_data", "prepare_geographic_data",
            "create_monthly_distribution", "create_age_gender_pyramid"}

(***************************************************************************)
(* C17  No rollup of a table with rows has a group without rows: every    *)
(* group of its result has the key values of at least one row of the       *)
(* table.                                                                  *)
(***************************************************************************)
C17_NoEmptyGroup ==
    (agg.op \in Rollups /\ Loaded # <<>>) =>
        \A g \in DOMAIN agg.ret : \E i \in DOMAIN Loaded : InGroup(Loaded[i], g)

NextAgg ==
    \/ CallSummaryStats
    \/ CallRates
    \/ CallTemporalVariations
    \/ CallFinancialVariations
    \/ CallWeeklyHourlyHeatmap
    \/ CallDensityHeatmap
    \/ CallEconomicDensity
    \/ CallPrepareTemporalData
    \/ CallPrepareGeographicData
    \/ CallMonthlyDistribution
    \/ CallAgeGenderPyramid

SpecAgg == InitAgg /\ [][NextAgg]_vars

(***************************************************************************)
(* src/src/data_loader.py, load_data, under @st.cache_data.  The source    *)
(* file holds text; pd.to_numeric(errors='coerce') turns the text of a     *)
(* numeric column into a number or NaN, and the Date is parsed from        *)
(* "<Year>-<month number>-01".  Any exception inside is caught and None is *)
(* returned.  st.cache_data keeps the value the first execution returned   *)
(* (None included) and hands it to every later call in the process.        *)
(***************************************************************************)
MaxSourceRows == 2
MaxCalls == 3

MkRaw(veh, inj, fat, rt, year, month) ==
    [vehicles |-> veh, injuries |-> inj, fatalities |-> fat,
     response_time |-> rt, year |-> year, month |-> month]

RawRow1 == MkRaw("2", "3", "1", "12", 2023, "March")
RawRow2 == MkRaw("1", "0", "0", "1e1", 2022, "December")
RawBadCells == MkRaw("two", "0", "n/a", "", 2023, "May")
RawBadMonth == MkRaw("1", "1", "0", "12", 2023, "Mars")

RawRows == <<RawRow1, RawRow2, RawBadCells, RawBadMonth>>

numeric_columns == {"vehicles", "injuries", "fatalities", "response_time"}

\* The number a text parses to, NaN for a text that is not a number.
to_numeric(text) ==
    CASE text = "0" -> 0
      [] text = "1" -> 1
      [] text = "2" -> 2
      [] text = "3" -> 3
      [] text = "12" -> 12
      [] text = "1e1" -> 10
      [] OTHER -> NaN

\* data/accidents.csv: absent, or a table of text rows.
NoFile == [exists |-> FALSE, rows |-> <<>>]

Sources ==
    {NoFile} \cup
    {[exists |-> TRUE,
      rows |-> [k \in 1..Cardinality(I) |->
                  RawRows[CHOOSE i \in I : Cardinality({j \in I : j < i}) = k - 1]]] :
     I \in {J \in SUBSET DOMAIN RawRows : Cardinality(J) <= MaxSourceRows}}

\* What load_data returns: None, or a table.
ReturnedNone == [none |-> TRUE, rows |-> <<>>]
ReturnedTable(t) == [none |-> FALSE, rows |-> t]

\* The loop over numeric_columns with the rows that hold a bad cell dropped.
CoercedDropBad(rows) ==
    LET t == [i \in DOMAIN rows |->
                 [c \in DOMAIN rows[i] |->
                     IF c \in numeric_columns THEN to_numeric(rows[i][c])
                     ELSE rows[i][c]]]
    IN SelectRows(t, [i \in DOMAIN t |-> \A c \in numeric_columns : t[i][c] # NaN])

\* for col in numeric_columns: df[col] = pd.to_numeric(df[col], errors='coerce')
Coerced(rows) ==
    [i \in DOMAIN rows |->
        [c \in DOMAIN rows[i] |->
            IF c \in numeric_columns THEN to_numeric(rows[i][c]) ELSE rows[i][c]]]

\* pd.to_datetime(year + '-' + month number + '-01') raises for a text such
\* as "2023-nan-01", which a Month outside month_map produces.
DateParses(rows) == \A i \in DOMAIN rows : month_map(rows[i].month) # NaN

WithDate(t) ==
    [i \in DOMAIN t |-> t[i] @@ [date |-> <<t[i].year, month_map(t[i].month)>>]]

\* The body of load_data, executed on the source as it is now.
load_data_body(src) ==
    IF ~src.exists THEN ReturnedNone
    ELSE IF ~DateParses(src.rows) THEN ReturnedNone
    ELSE ReturnedTable(WithDate(Coerced(src.rows)))

\* A cache that never holds a value.
CacheNeverHit == FALSE

\* st.cache_data has a value for load_data().
CacheHit == cache # <<>>

\* A cache that keeps a table but not None.
StoredUnlessNone(ret) == IF ret.none THEN <<>> ELSE <<ret>>

\* st.cache_data stores whatever the body returned, None included.
Stored(ret) == <<ret>>

\* A call of load_data().  `error` tells whether st.error has shown the
\* message of the except clause: the body shows it when it returns None, and
\* st.cache_data replays the elements of the cached execution on a hit.
CallLoadData ==
    /\ calls < MaxCalls
    /\ calls' = calls + 1
    /\ IF CacheHit
       THEN /\ agg' = [op |-> "load_data", ret |-> cache[1],
                       error |-> cache[1].none]
            /\ UNCHANGED <<cache, reads>>
       ELSE /\ agg' = [op |-> "load_data", ret |-> load_data_body(source),
                       error |-> load_data_body(source).none]
            /\ cache' = Stored(load_data_body(source))
            /\ reads' = reads + 1
    /\ fault' = "none"
    /\ UNCHANGED <<heap, df, session_state, filtered_df, stats, source, sessions>>

\* The environment rewrites, creates or removes the source file.
ModifySource ==
    /\ \E s \in Sources \ {source} : source' = s
    /\ UNCHANGED <<heap, df, session_state, filtered_df, stats, fault, agg,
                   cache, calls, reads, sessions>>

InitLoad ==
    /\ df = None
    /\ heap = <<>>
    /\ session_state = NoSession
    /\ filtered_df = None
    /\ stats = EmptyDict
    /\ fault = "none"
    /\ agg = NoCall
    /\ source \in Sources
    /\ cache = <<>>
    /\ calls = 0
    /\ reads = 0
    /\ sessions = <<>>

NextLoad == CallLoadData \/ ModifySource

SpecLoad == InitLoad /\ [][NextLoad]_vars

\* This step is a load_data() call that executes the body (reads the source).
Executes == calls' = calls + 1 /\ reads' = reads + 1

\* A cell of a numeric column that is not the text of a number.
BadCell(row, c) == c \in numeric_columns /\ to_numeric(row[c]) = NaN

(***************************************************************************)
(* C18  When load_data reads a source whose Months are all month names,    *)
(* it returns a table with every source row, in which a cell of a numeric  *)
(* column is the number its text stands for, or NaN when the text is not   *)
(* a number, and every other cell is unchanged: a bad cell makes neither   *)
(* the load fail nor a row disappear.                                      *)
(***************************************************************************)
C18_NumericCoercion ==
    [][(Executes /\ source.exists /\ DateParses(source.rows)) =>
          /\ ~agg'.ret.none
          /\ Len(agg'.ret.rows) = Len(source.rows)
          /\ \A i \in DOMAIN source.rows :
                /\ \A c \in numeric_columns :
                      /\ BadCell(source.rows[i], c) => agg'.ret.rows[i][c] = NaN
                      /\ \A n \in {0, 1, 2, 3, 12} :
                            source.rows[i][c] = ToString(n)
                                => agg'.ret.rows[i][c] = n
                      /\ source.rows[i][c] = "1e1" => agg'.ret.rows[i][c] = 10
                /\ agg'.ret.rows[i].year = source.rows[i].year
                /\ agg'.ret.rows[i].month = source.rows[i].month]_vars

\* Reached: the first call has loaded a source with a row of bad cells and a
\* row without; both rows are in the table, the bad cells as NaN.
C18_Witness ==
    /\ calls = 1
    /\ ~agg.ret.none
    /\ source.rows = <<RawRow1, RawBadCells>>
    /\ Len(agg.ret.rows) = 2
    /\ agg.ret.rows[1].vehicles = 2
    /\ agg.ret.rows[2].vehicles = NaN
    /\ agg.ret.rows[2].injuries = 0

(***************************************************************************)
(* C19  When load_data reads a source with a row whose Month is not a      *)
(* month name, the load does not fail: the row is in the table with a      *)
(* missing Date, and every other row has the Date of its Year and Month.   *)
(***************************************************************************)
C19_BadMonthRowRetained ==
    [][(Executes /\ source.exists /\ ~DateParses(source.rows)) =>
          /\ ~agg'.ret.none
          /\ Len(agg'.ret.rows) = Len(source.rows)
          /\ \A i \in DOMAIN source.rows :
                IF month_map(source.rows[i].month) = NaN
                THEN agg'.ret.rows[i].date = None
                ELSE agg'.ret.rows[i].date =
                         <<source.rows[i].year, month_map(source.rows[i].month)>>]_vars

(***************************************************************************)
(* C20  After the first load_data call, every later call in the process    *)
(* returns what the call before it returned and does not read the source:  *)
(* the source is read at most once.                                        *)
(***************************************************************************)
C20_CachedLoad ==
    [][(calls >= 1 /\ calls' = calls + 1) =>
          /\ agg'.ret = agg.ret
          /\ reads' = reads
          /\ reads' <= 1]_vars

\* Reached: three calls on an unchanged source that loads, one read.
C20_Witness ==
    /\ calls = MaxCalls
    /\ reads = 1
    /\ ~agg.ret.none
    /\ agg.ret = load_data_body(source)

(***************************************************************************)
(* C21  A load_data call made after the source file has changed reads the  *)
(* source again and returns the new content: every call returns what the   *)
(* body of load_data gives on the source as it is at the call.             *)
(***************************************************************************)
C21_ReloadsChangedSource ==
    [][(calls' = calls + 1) => agg'.ret = load_data_body(source)]_vars

\* The source cannot be loaded: no file, or a Date that does not parse.
Unloadable(src) == ~src.exists \/ ~DateParses(src.rows)

(***************************************************************************)
(* C30  A failure inside load_data never leaves it as an exception: the    *)
(* call returns None and the error message is shown.  The None is cached   *)
(* like a table: once a call has returned None, every later call in the    *)
(* process returns None without reading the source again.                  *)
(***************************************************************************)
C30_FailureIsCachedNone ==
    [][(calls' = calls + 1) =>
          /\ fault' = "none"
          /\ (Executes /\ Unloadable(source)) =>
                 /\ agg'.ret.none
                 /\ agg'.error
          /\ (calls >= 1 /\ agg.ret.none) =>
                 /\ agg'.ret.none
                 /\ agg'.error
                 /\ reads' = reads]_vars

\* Reached: the first call failed, the source has since become loadable, and
\* the last call still returned None with a single read.
C30_Witness ==
    /\ calls = MaxCalls
    /\ reads = 1
    /\ agg.ret.none
    /\ agg.error
    /\ ~Unloadable(source)

(***************************************************************************)
(* C22  No aggregation or chart-preparation call changes the table it is   *)
(* given: the table has the same columns and cells after the call as       *)
(* before it.                                                              *)
(***************************************************************************)
C22_InputUnchanged ==
    [][(agg'.op # "none") => heap'[df'] = heap[df]]_vars

(***************************************************************************)
(* C29  A casualties range whose bounds are both 0 is applied: with        *)
(* casualties_range = (0, 0) filter_data keeps exactly the rows, among     *)
(* those the other fields admit, whose injuries and fatalities are present *)
(* and add up to 0.                                                        *)
(***************************************************************************)
C29_ZeroRangeApplied ==
    (Ran /\ filters.casualties_range = <<0, 0>>) =>
        Filtered = SelectSeq(Loaded, LAMBDA r :
            /\ r.injuries # NaN
            /\ r.fatalities # NaN
            /\ r.injuries + r.fatalities = 0
            /\ PassesAllBut({"casualties_range"}, r, filters))

\* Reached: of two rows the other fields admit, the range (0, 0) has removed
\* the one with casualties and kept the one without.
C29_Witness ==
    /\ Ran
    /\ filters.casualties_range = <<0, 0>>
    /\ Loaded = <<Row1, Row2>>
    /\ Filtered = <<Row2>>
    /\ PassesAllBut({"casualties_range"}, Row1, filters)

(***************************************************************************)
(* src/src/components/filters.py, get_active_filters(): the fields of the  *)
(* session's filters shown as active, under their labels (written here     *)
(* without accents), each with the text or the list that is displayed.     *)
(***************************************************************************)
\* f"{a} - {b}" of a slider's pair.
FormatRange(range) == ToString(range[1]) \o " - " \o ToString(range[2])

\* The test of a slider's pair: `range != (lo, hi)`.
TruthOfRange(range, neutral) == range # <<>>
RangeDiffers(range, neutral) == range # neutral

\* One `if test: active_filters[label] = value` statement.
ActiveIf(test, label, value) == IF test THEN (label :> value) ELSE <<>>

get_active_filters(ss) ==
    LET f == ss.filters
    IN ActiveIf(f.severity # {}, "Severite", f.severity)
       @@ ActiveIf(RangeDiffers(f.vehicles_range, <<1, 4>>), "Vehicules", FormatRange(f.vehicles_range))
       @@ ActiveIf(f.pedestrians, "Pietons", "Oui")
       @@ ActiveIf(f.cyclists, "Cyclistes", "Oui")
       @@ ActiveIf(RangeDiffers(f.casualties_range, <<0, 23>>), "Victimes",
                   FormatRange(f.casualties_range))
       @@ ActiveIf(RangeDiffers(f.response_time_range, <<5, 60>>), "Temps de reponse",
                   FormatRange(f.response_time_range) \o " min")
       @@ ActiveIf(f.causes # {}, "Causes", f.causes)

\* The label get_active_filters uses for each field.
ActiveLabel ==
    [severity |-> "Severite", vehicles_range |-> "Vehicules",
     pedestrians |-> "Pietons", cyclists |-> "Cyclistes",
     casualties_range |-> "Victimes", response_time_range |-> "Temps de reponse",
     causes |-> "Causes"]

(***************************************************************************)
(* Several browser sessions of one process.  Each session has its own      *)
(* st.session_state; the locals of a pass (the filtered table, the          *)
(* statistics, the active filters shown) belong to the session that runs   *)
(* the pass.  load_data() is cached for the process: the sessions are given *)
(* the same base table (st.cache_data hands each caller a copy of it; one   *)
(* shared object is the stronger case).  Every page calls render_filters()  *)
(* and then filter_data(); overview.py goes on to show the active filters   *)
(* and the summary statistics.                                              *)
(***************************************************************************)
Browsers == {1, 2}

Pages == {"overview", "temporal"}

\* What a page that does not compute a value shows for it.
NotComputed == [computed |-> FALSE]

NewSession ==
    [session_state |-> NoSession, filtered_df |-> None, stats |-> NotComputed,
     active_filters |-> NotComputed, page |-> "overview", current_filters |-> NotComputed,
     rerun |-> FALSE]

\* The datasets the sessions are given: those with the row that the filters
\* chosen below tell apart from every other row.
SessionDatasets == {D \in Datasets : D # <<>> /\ D[1] = Row1}

\* The filter specifications the users of the sessions choose among.
SessionSpecs ==
    {S \in FilterSpecs :
        /\ S.severity \in {{}, {"Severe"}}
        /\ S.casualties_range \in {<<0, 23>>, <<0, 0>>}
        /\ S.vehicles_range = <<1, 4>>
        /\ ~S.pedestrians
        /\ ~S.cyclists
        /\ S.response_time_range = <<5, 60>>
        /\ S.causes = {}}

\* The value each widget of session s has when the user touches nothing: its
\* default= or value= argument, read from the session after initialize_filters().
SessionWidgetValues(s) == initialize_filters(sessions[s].session_state).filters

\* st.session_state.filters = value, in session s.
AssignFiltersInAll(all, s, value) ==
    [t \in DOMAIN all |-> [all[t] EXCEPT !.session_state = [filters |-> value]]]
AssignFilters(all, s, value) ==
    [all EXCEPT ![s].session_state = [filters |-> value]]

\* The table a pass of session s gives filter_data: df, what load_data() returned.
PassInputPrevious(s) ==
    IF sessions[s].filtered_df = None THEN df ELSE sessions[s].filtered_df
PassInput(s) == df

\* One pass of a page's script in session s that runs to its end, the widgets
\* holding current_filters.  The table of the session's previous pass is no
\* longer referenced once the new one is bound.
Pass(s, page, current_filters) ==
    \E r \in {filter_data(heap, PassInput(s), current_filters)} :
    \E written \in {AssignFilters(sessions, s, r.filters)} :
       /\ heap' = IF sessions[s].filtered_df = None THEN r.heap
                  ELSE Release(r.heap, sessions[s].filtered_df)
       /\ sessions' = [written EXCEPT ![s] =
              [session_state |-> written[s].session_state,
               filtered_df |-> r.ret,
               stats |-> IF page = "overview"
                         THEN calculate_summary_stats(r.heap[r.ret])
                         ELSE NotComputed,
               active_filters |-> IF page = "overview"
                                  THEN get_active_filters(written[s].session_state)
                                  ELSE NotComputed,
               page |-> page,
               current_filters |-> current_filters,
               rerun |-> FALSE]]
       /\ UNCHANGED <<df, session_state, filtered_df, stats, fault, agg,
                      source, cache, calls, reads>>

\* A pass no widget change caused: the first pass of a session, a refresh, a
\* change of page, or the pass st.rerun() asked for.
SessionRerun(s) == \E page \in Pages :
    /\ sessions[s].rerun => page = sessions[s].page
    /\ Pass(s, page, SessionWidgetValues(s))

\* The user changes one widget of the page shown.
SessionSetWidget(s) ==
    /\ ~sessions[s].rerun
    /\ sessions[s].filtered_df # None
    /\ \E v \in (OneFieldChanged(SessionWidgetValues(s)) \cap SessionSpecs)
                  \ {SessionWidgetValues(s)} :
           Pass(s, sessions[s].page, v)

\* What the session's filters are once the branch of the reset button has run:
\* st.rerun() ends the pass there, so that the assignment of current_filters
\* that follows the widgets is not reached.
AfterResetWrittenBack(current_filters) == current_filters
AfterReset(current_filters) == NeutralFilters

\* The user presses the reset button: the pass runs up to st.rerun().
SessionReset(s) ==
    /\ ~sessions[s].rerun
    /\ sessions[s].filtered_df # None
    /\ sessions' = [AssignFilters(sessions, s, AfterReset(SessionWidgetValues(s)))
                        EXCEPT ![s].rerun = TRUE]
    /\ UNCHANGED <<heap, df, session_state, filtered_df, stats, fault, agg,
                   source, cache, calls, reads>>

InitSessions ==
    /\ df = 1
    /\ \E D \in SessionDatasets : heap = (1 :> D)
    /\ sessions = [s \in Browsers |-> NewSession]
    /\ session_state = NoSession
    /\ filtered_df = None
    /\ stats = EmptyDict
    /\ fault = "none"
    /\ agg = NoCall
    /\ source = <<>>
    /\ cache = <<>>
    /\ calls = 0
    /\ reads = 0

NextSessions == \E s \in Browsers :
    \/ SessionRerun(s)
    \/ SessionSetWidget(s)
    \/ SessionReset(s)

SpecSessions == InitSessions /\ [][NextSessions]_vars

\* The sessions whose last pass, on the overview page, ran to its end.
Shown == {s \in Browsers : sessions[s].filtered_df # None /\ ~sessions[s].rerun
                            /\ sessions[s].page = "overview"}

PassEnded(s) == sessions'[s] # sessions[s] /\ ~sessions'[s].rerun

(***************************************************************************)
(* C27  initialize_filters writes the neutral specification only into a    *)
(* session without filter state, and leaves an existing one alone: the     *)
(* first pass of a session returns the neutral values, and a later pass,   *)
(* on any page, returns the session's former values but for the one widget *)
(* the user changed, if any.  After every pass that ran to its end the     *)
(* session's filters are the values render_filters returned, and they hold *)
(* exactly the seven fields.                                               *)
(***************************************************************************)
C27_SessionKeepsFilters ==
    [][\A s \in Browsers : PassEnded(s) =>
          /\ sessions'[s].session_state.filters = sessions'[s].current_filters
          /\ DOMAIN sessions'[s].session_state.filters = Fields
          /\ sessions[s].session_state = NoSession =>
                sessions'[s].current_filters = NeutralFilters
          /\ (sessions[s].session_state # NoSession /\ ~sessions[s].rerun) =>
                sessions'[s].current_filters
                    \in OneFieldChanged(sessions[s].session_state.filters)
          /\ (sessions[s].session_state # NoSession /\ sessions'[s].page # sessions[s].page) =>
                sessions'[s].current_filters = sessions[s].session_state.filters]_vars

C27_Witness ==
    \E s \in Browsers :
        /\ ~sessions[s].rerun
        /\ sessions[s].page = "temporal"
        /\ sessions[s].filtered_df # None
        /\ sessions[s].session_state.filters =
              [NeutralFilters EXCEPT !.severity = {"Severe"}, !.casualties_range = <<0, 0>>]
        /\ sessions[s].current_filters = sessions[s].session_state.filters

\* The reset button was pressed in session s: its pass was cut by st.rerun().
ResetPressed(s) == sessions'[s].rerun /\ ~sessions[s].rerun

(***************************************************************************)
(* C25  Reset.  When the reset button is pressed during a pass the session *)
(* filters are set to the neutral specification and the pass is restarted  *)
(* before the values of its widgets are written back: whatever filters     *)
(* were active, the session filters are the neutral specification when the *)
(* next pass starts, and the cut pass has produced no table.               *)
(***************************************************************************)
C25_ResetIsNeutral ==
    [][\A s \in Browsers :
          /\ ResetPressed(s) =>
                /\ sessions'[s].session_state = [filters |-> NeutralFilters]
                /\ sessions'[s].filtered_df = sessions[s].filtered_df
                /\ sessions'[s].current_filters = sessions[s].current_filters
          /\ (sessions[s].rerun /\ sessions'[s] # sessions[s]) =>
                /\ sessions[s].session_state = [filters |-> NeutralFilters]
                /\ ~sessions'[s].rerun
                /\ sessions'[s].page = sessions[s].page]_vars

C25_Witness ==
    \E s \in Browsers :
        /\ sessions[s].rerun
        /\ sessions[s].session_state = [filters |-> NeutralFilters]
        /\ sessions[s].current_filters =
              [NeutralFilters EXCEPT !.severity = {"Severe"}, !.casualties_range = <<0, 0>>]

\* The table session s was last shown, if it has one.
TableOf(h, all, s) == IF all[s].filtered_df = None THEN None ELSE h[all[s].filtered_df]

(***************************************************************************)
(* C24  Session isolation.  However the passes of two sessions interleave, *)
(* a pass or a reset of one session changes neither the filters nor the    *)
(* filtered table nor anything else of the other session; the base table   *)
(* the sessions share is never modified.                                   *)
(***************************************************************************)
C24_SessionsIsolated ==
    [][/\ df' = df
       /\ heap'[df'] = heap[df]
       /\ \A s, t \in Browsers : (s # t /\ sessions'[s] # sessions[s]) =>
             /\ sessions'[t] = sessions[t]
             /\ TableOf(heap', sessions', t) = TableOf(heap, sessions, t)]_vars

C24_Witness ==
    /\ heap[df] = <<Row1, Row2>>
    /\ sessions[1].session_state =
          [filters |-> [NeutralFilters EXCEPT !.severity = {"Severe"}]]
    /\ ~sessions[1].rerun
    /\ TableOf(heap, sessions, 1) = <<Row1>>
    /\ sessions[2].rerun
    /\ sessions[2].session_state = [filters |-> NeutralFilters]
    /\ sessions[2].current_filters = [NeutralFilters EXCEPT !.casualties_range = <<0, 0>>]
    /\ TableOf(heap, sessions, 2) = <<Row2>>

\* The sessions whose last pass ran to its end, on any page.
Completed == {s \in Browsers : sessions[s].filtered_df # None /\ ~sessions[s].rerun}

\* filter_data(table, S) called where nothing else has been allocated.
FreshResult(table, S) ==
    LET r == filter_data((1 :> table), 1, S) IN r.heap[r.ret]

(***************************************************************************)
(* C23  Determinism.  The filtered table and the summary statistics of a   *)
(* pass depend on the input table and the filter specification only: they *)
(* are what a first call on that table gives, whatever passes, selections  *)
(* and resets came before, and two sessions with different histories but   *)
(* the same specification have the same table and the same statistics.     *)
(***************************************************************************)
C23_Deterministic ==
    /\ \A s \in Completed :
          /\ TableOf(heap, sessions, s)
                = FreshResult(heap[df], sessions[s].session_state.filters)
          /\ sessions[s].page = "overview" =>
                sessions[s].stats
                    = calculate_summary_stats(
                          FreshResult(heap[df], sessions[s].session_state.filters))
    /\ \A s, t \in Shown :
          sessions[s].session_state = sessions[t].session_state =>
             /\ TableOf(heap, sessions, s) = TableOf(heap, sessions, t)
             /\ sessions[s].stats = sessions[t].stats

C23_Witness ==
    /\ Shown = Browsers
    /\ heap[df] = <<Row1, RowNoInjuries>>
    /\ \A s \in Browsers :
          /\ sessions[s].session_state =
                [filters |-> [NeutralFilters EXCEPT !.severity = {"Severe"}]]
          /\ TableOf(heap, sessions, s) = <<Row1>>
          /\ sessions[s].stats = calculate_summary_stats(<<Row1>>)
    /\ sessions[1].filtered_df # sessions[2].filtered_df

(***************************************************************************)
(* filter_data applied to its own result: a table is filtered under one    *)
(* specification and the table returned is filtered again under another.   *)
(***************************************************************************)
\* The specifications with at most one field away from its neutral value.
ProbeSpecs == OneFieldChanged(NeutralFilters)

\* filtered_df = filter_data(df, S1)
FilterOnce == \E S1 \in ProbeSpecs :
    /\ filtered_df = None
    /\ \E r \in {filter_data(heap, df, S1)} :
          /\ heap' = r.heap
          /\ filtered_df' = r.ret
          /\ session_state' = [filters |-> r.filters]
    /\ UNCHANGED <<df, stats, fault, agg, source, cache, calls, reads, sessions>>

\* filter_data(filtered_df, S2)
FilterAgain == \E S2 \in ProbeSpecs :
    /\ filtered_df # None
    /\ agg = NoCall
    /\ Call("filter_data", [filters |-> S2, table |-> Result(filtered_df, S2)], "none")

NextRefilter == FilterOnce \/ FilterAgain

SpecRefilter == Init /\ [][NextRefilter]_vars

(***************************************************************************)
(* C28  Filters commute: filtering a dataset under S1 and the result under *)
(* S2 gives the same rows in the same order as filtering it under S2 and   *)
(* the result under S1.                                                    *)
(***************************************************************************)
C28_FiltersCommute ==
    Returned("filter_data") =>
        agg.ret.table = FreshResult(FreshResult(Loaded, agg.ret.filters), filters)

C28_Witness ==
    /\ Returned("filter_data")
    /\ Loaded = <<Row1, Row2>>
    /\ filters = [NeutralFilters EXCEPT !.severity = {"Severe", "Minor"}]
    /\ Filtered = <<Row1, Row2>>
    /\ agg.ret.filters = [NeutralFilters EXCEPT !.casualties_range = <<0, 0>>]
    /\ agg.ret.table = <<Row2>>

====
